---- MODULE Spec2Model ----
(***************************************************************************)
(* Reefline flow service: the Supervisor/Critique report workflow          *)
(* (src/flow/flow.py), its artifact tools (src/flow/integration/minio.py)  *)
(* and the /report endpoint (src/flow/main.py).                            *)
(*                                                                         *)
(* The turn loop itself (Runner.run of the agents package) is not part of  *)
(* the repository's sources; its steps follow spec.md section 4.3, and the *)
(* dispatcher's tool-set check follows section 4.2.  Everything the        *)
(* repository's own code decides (allow-lists, tool bodies, agent wiring,  *)
(* the arguments of Runner.run, the endpoint) is modelled from the code.   *)
(***************************************************************************)
EXTENDS Integers, Sequences, FiniteSets, TLC

VARIABLES
    jobs,             \* job ids with a live row in the jobs table
    integrations,     \* providers with a connected integration row
    store,            \* object storage: object name -> bytes, or NoObject
    phase,            \* position of generate_report: "idle", "running", "responded"
    http,             \* what generate_report answered
    status,           \* state of the run: "NotStarted", "Active" or a terminal one
    agent,            \* the active agent of the run
    current_turn,     \* the turn counter of the turn loop
    provider_queries, \* number of Completion Provider queries made so far
    response,         \* the provider's response in the last turn
    tool_result,      \* the ToolResult the last turn appended to the transcript
    client_op,        \* the Artifact Client call the last turn executed
    final_output,     \* the run's FinalAnswer text
    revision_count,   \* Critique -> Supervisor handoffs so far (saturates at RevCap)
    committed,        \* per object, the bytes of the last put the client acknowledged
    _client,          \* minio.py's module-level _client: "None" or a Minio client
    worker,           \* per concurrent job: where its current tool call stands in the client code
    bucket,           \* the objects the concurrent jobs have put, by object name
    alone,            \* per concurrent job: the objects put, had the job run alone
    access            \* the accesses to shared variables: <<variable, job, "r" or "w">>

flowVars == <<jobs, integrations, store, phase, http, status, agent, current_turn,
              provider_queries, response, tool_result, client_op, final_output,
              revision_count, committed>>

jobVars == <<_client, worker, bucket, alone, access>>

vars == <<flowVars, jobVars>>

----------------------------------------------------------------------------
(* Bounds of the model *)

\* revision_count is a history counter the code does not keep; it stops
\* counting at RevCap (it then reads "RevCap or more").
RevCap == 4

\* tool calls per job in the specification of two concurrent jobs
MaxCalls == 2

----------------------------------------------------------------------------
(* Text and bytes *)

\* A text is a sequence of code points; 97 is "a" (one byte in UTF-8),
\* 233 is "e acute" (two bytes in UTF-8).
Contents == { <<97>>, <<233>> }

\* str.encode(): UTF-8 of one code point below 2048
EncodeChar(cp) ==
    IF cp < 128 THEN <<cp>>
    ELSE <<192 + (cp \div 64), 128 + (cp % 64)>>

RECURSIVE encode(_)
encode(text) ==
    IF text = <<>> THEN <<>>
    ELSE EncodeChar(Head(text)) \o encode(Tail(text))

DecodeError == <<-1>>

\* bytes.decode(): UTF-8 of code points below 2048; DecodeError when the
\* bytes are not valid UTF-8
RECURSIVE decode(_)
decode(bytes) ==
    IF bytes = <<>> THEN <<>>
    ELSE IF bytes[1] < 128
         THEN LET rest == decode(Tail(bytes))
              IN  IF rest = DecodeError THEN DecodeError ELSE <<bytes[1]>> \o rest
    ELSE IF /\ bytes[1] >= 194 /\ bytes[1] < 224 /\ Len(bytes) >= 2
            /\ bytes[2] >= 128 /\ bytes[2] < 192
         THEN LET rest == decode(Tail(Tail(bytes)))
              IN  IF rest = DecodeError THEN DecodeError
                  ELSE <<(bytes[1] - 192) * 64 + (bytes[2] - 128)>> \o rest
    ELSE DecodeError

----------------------------------------------------------------------------
(* Names *)

ALLOWED_READ  == {"grype.json", "dockle.json", "dive.json", "draft.md", "report.md"}

\* a write allow-list that also names a scan artifact
ALLOWED_WRITE_with_scan == {"report.md", "draft.md", "grype.json"}

ALLOWED_WRITE == {"report.md", "draft.md"}

ScanNames == {"grype.json", "dockle.json", "dive.json"}

\* the file names a tool call may carry: the declared ones and one that is
\* declared nowhere
Filenames == ALLOWED_READ \cup ALLOWED_WRITE \cup {"secret.txt"}

\* Python's order of the strings of Filenames (sorted() compares code points)
NameOrder == <<"dive.json", "dockle.json", "draft.md", "grype.json", "report.md", "secret.txt">>

\* sorted(S) for a set S of file names
sorted(S) == SelectSeq(NameOrder, LAMBDA n : n \in S)

JobId == "job-1"

\* an object name that leaves the job id out of account
object_name_one_prefix(job_id, filename) == <<JobId, "artifacts", filename>>

\* f"{job_id}/artifacts/{filename}"
object_name(job_id, filename) == <<job_id, "artifacts", filename>>

ObjectNames == { object_name(JobId, f) : f \in Filenames }

NoObject == <<-2>>

----------------------------------------------------------------------------
(* Artifact Client (integration/minio.py) *)

\* What a storage call may do besides succeed
Faults == {"none", "io"}

\* read_artifact: the object's bytes; raises when the call fails or the
\* object does not exist
read_artifact(st, job_id, filename, fault) ==
    LET obj == object_name(job_id, filename) IN
    IF fault # "none" THEN [raised |-> "IOError", bytes |-> <<>>, object |-> obj]
    ELSE IF st[obj] = NoObject THEN [raised |-> "NoSuchKey", bytes |-> <<>>, object |-> obj]
    ELSE [raised |-> "none", bytes |-> st[obj], object |-> obj]

\* a write_artifact that returns before the bytes are stored
write_artifact_lost(st, job_id, filename, content, fault) ==
    LET obj == object_name(job_id, filename) IN
    IF fault # "none" THEN [raised |-> "IOError", store |-> st, object |-> obj]
    ELSE [raised |-> "none", store |-> st, object |-> obj]

\* a write_artifact that appends to an existing object
write_artifact_append(st, job_id, filename, content, fault) ==
    LET obj == object_name(job_id, filename) IN
    IF fault # "none" THEN [raised |-> "IOError", store |-> st, object |-> obj]
    ELSE [raised |-> "none", object |-> obj,
          store |-> [st EXCEPT ![obj] = IF @ = NoObject THEN content ELSE @ \o content]]

\* write_artifact: puts the bytes under the object name; raises when the
\* call fails, leaving the store as it was
write_artifact(st, job_id, filename, content, fault) ==
    LET obj == object_name(job_id, filename) IN
    IF fault # "none" THEN [raised |-> "IOError", store |-> st, object |-> obj]
    ELSE [raised |-> "none", store |-> [st EXCEPT ![obj] = content], object |-> obj]

----------------------------------------------------------------------------
(* Tools (flow.py, make_scan_tools) *)

\* An Artifact Client call: which one, on which object, what it raised, and
\* the bytes that went with it (handed to put_object, or returned by get_object)
Op(op, object, raised, data) ==
    [op |-> op, object |-> object, raised |-> raised, data |-> data]

NoOp == Op("none", <<>>, "none", <<>>)

\* A ToolResult is text; the model keeps the parts of the text apart
Result(kind, filename, text, choices, count, e) ==
    [kind |-> kind, filename |-> filename, text |-> text, choices |-> choices,
     count |-> count, e |-> e]

NoResult == Result("none", "", <<>>, <<>>, 0, "")

\* What a tool call comes to: the text it returns, the client call it made,
\* the store afterwards, and the exception that left the tool body, if any
Outcome(result, op, st, escaped) ==
    [result |-> result, op |-> op, store |-> st, escaped |-> escaped]

\* read_file without its allow-list check
read_file_ungated(st, job_id, filename, fault) ==
    LET r    == read_artifact(st, job_id, filename, fault)
        text == IF r.raised = "none" THEN decode(r.bytes) ELSE <<>>
    IN  IF r.raised = "none" /\ text # DecodeError
        THEN Outcome(Result("Content", filename, text, <<>>, 0, ""),
                     Op("get", r.object, r.raised, r.bytes), st, "none")
        ELSE Outcome(Result("NotAvailable", filename, <<>>, <<>>, 0,
                            IF r.raised # "none" THEN r.raised ELSE "UnicodeDecodeError"),
                     Op("get", r.object, r.raised, r.bytes), st, "none")

\* read_file without its try/except: what read_artifact raises leaves the tool
read_file_uncaught(st, job_id, filename, fault) ==
    IF filename \notin ALLOWED_READ
    THEN Outcome(Result("Error", filename, <<>>, sorted(ALLOWED_READ), 0, ""),
                 NoOp, st, "none")
    ELSE LET r == read_artifact(st, job_id, filename, fault)
         IN  IF r.raised = "none"
             THEN Outcome(Result("Content", filename, decode(r.bytes), <<>>, 0, ""),
                          Op("get", r.object, r.raised, r.bytes), st, "none")
             ELSE Outcome(NoResult, Op("get", r.object, r.raised, r.bytes), st, r.raised)

\* read_file(filename)
read_file(st, job_id, filename, fault) ==
    IF filename \notin ALLOWED_READ
    THEN \* "Error: '<filename>' not allowed. Choose from: <sorted names>"
         Outcome(Result("Error", filename, <<>>, sorted(ALLOWED_READ), 0, ""),
                 NoOp, st, "none")
    ELSE LET r    == read_artifact(st, job_id, filename, fault)
             text == IF r.raised = "none" THEN decode(r.bytes) ELSE <<>>
             e    == IF r.raised # "none" THEN r.raised
                     ELSE IF text = DecodeError THEN "UnicodeDecodeError"
                     ELSE "none"
         IN  IF e = "none"
             THEN Outcome(Result("Content", filename, text, <<>>, 0, ""),
                          Op("get", r.object, r.raised, r.bytes), st, "none")
             ELSE \* except Exception: "<filename> not available: <e>"
                  Outcome(Result("NotAvailable", filename, <<>>, <<>>, 0, e),
                          Op("get", r.object, r.raised, r.bytes), st, "none")

\* write_file whose rejection lists the names of the other allow-list
write_file_otherlist(st, job_id, filename, content, fault) ==
    IF filename \notin ALLOWED_WRITE
    THEN Outcome(Result("Error", filename, <<>>, sorted(ALLOWED_READ), 0, ""),
                 NoOp, st, "none")
    ELSE LET w == write_artifact(st, job_id, filename, encode(content), fault)
         IN  IF w.raised = "none"
             THEN Outcome(Result("OK", filename, <<>>, <<>>, Len(content), ""),
                          Op("put", w.object, "none", encode(content)), w.store, "none")
             ELSE Outcome(Result("ErrorWriting", filename, <<>>, <<>>, 0, w.raised),
                          Op("put", w.object, w.raised, encode(content)), w.store, "none")

\* write_file(filename, content)
write_file(st, job_id, filename, content, fault) ==
    IF filename \notin ALLOWED_WRITE
    THEN \* "Error: '<filename>' not allowed. Choose from: <sorted names>"
         Outcome(Result("Error", filename, <<>>, sorted(ALLOWED_WRITE), 0, ""),
                 NoOp, st, "none")
    ELSE LET w == write_artifact(st, job_id, filename, encode(content), fault)
         IN  IF w.raised = "none"
             THEN \* "OK: <filename> saved (<len(content)> bytes)"
                  Outcome(Result("OK", filename, <<>>, <<>>, Len(content), ""),
                          Op("put", w.object, "none", encode(content)), w.store, "none")
             ELSE \* except Exception: "Error writing <filename>: <e>"
                  Outcome(Result("ErrorWriting", filename, <<>>, <<>>, 0, w.raised),
                          Op("put", w.object, w.raised, encode(content)), w.store, "none")

\* make_scan_tools returns [read_file, write_file]
scan_tools == {"read_file", "write_file"}

----------------------------------------------------------------------------
(* Agents (flow.py, run_flow) *)

supervisor == [name |-> "SupervisorAgent", tools |-> scan_tools,
               handoffs |-> {"CritiqueAgent"}]

critique == [name |-> "CritiqueAgent", tools |-> scan_tools,
             handoffs |-> {"SupervisorAgent"}]

AgentNames == {supervisor.name, critique.name}

AgentDef(name) == IF name = supervisor.name THEN supervisor ELSE critique

\* the handoff targets a provider response may carry
Targets == AgentNames \cup {"UnknownAgent"}

\* Runner.run(supervisor, task, max_turns=100)
max_turns == 100

starting_agent == supervisor.name

----------------------------------------------------------------------------
(* Tool Dispatcher (spec.md 4.2) *)

\* execute(agent, ToolCall): a tool outside the agent's tool set is rejected
\* before any tool body runs; otherwise the tool body decides
execute(st, job_id, ag, tool, filename, content, fault) ==
    IF tool \notin AgentDef(ag).tools
    THEN \* "tool not available to this role"
         Outcome(Result("ToolNotAvailable", filename, <<>>, <<>>, 0, ""), NoOp, st, "none")
    ELSE IF tool = "read_file" THEN read_file(st, job_id, filename, fault)
    ELSE write_file(st, job_id, filename, content, fault)

----------------------------------------------------------------------------
(* Initial state *)

NoResponse == [variant |-> "none", tool |-> "", filename |-> "", target |-> ""]

NoHttp == [code |-> 0, job_id |-> "", report |-> <<>>, bytes |-> 0, detail |-> ""]

\* what the scanners uploaded for the job before the report is requested
ScanData == encode(<<97>>)

InitStore ==
    [o \in ObjectNames |->
        IF o[3] \in ScanNames THEN ScanData ELSE NoObject]

\* Several jobs in one process (main.py: one run_flow per request)
Jobs == {"job-1", "job-2"}

\* the objects of all jobs; one bucket (settings.minio_default_bucket)
BucketObjects == { <<j, "artifacts", f>> : j \in Jobs, f \in Filenames }

InitBucket ==
    [o \in BucketObjects |->
        IF o[3] \in ScanNames THEN ScanData ELSE NoObject]

\* the storage, given the objects put since the start
BucketStore(puts) ==
    [o \in BucketObjects |-> IF o \in DOMAIN puts THEN puts[o] ELSE InitBucket[o]]

\* the objects of a storage that were put since the start
Puts(st) ==
    [o \in {n \in BucketObjects : st[n] # InitBucket[n]} |-> st[o]]

\* the tool calls a job's agents make
JobCalls ==
    { [tool |-> "read_file", filename |-> "draft.md", content |-> <<>>],
      [tool |-> "write_file", filename |-> "draft.md", content |-> <<97>>],
      [tool |-> "write_file", filename |-> "draft.md", content |-> <<233>>],
      [tool |-> "write_file", filename |-> "grype.json", content |-> <<97>>] }

NoCall == [tool |-> "", filename |-> "", content |-> <<>>]

\* a job with no tool call under way; held is get_client()'s return value
IdleWorker ==
    [pc |-> "idle", call |-> NoCall, held |-> "None", calls |-> 0,
     op |-> NoOp, result |-> NoResult, expect |-> NoResult]

\* the variables more than one job can reach: the module global and the objects
ClientVar == <<"_client">>

SharedNames == {ClientVar} \cup BucketObjects

NoAccess == {}

Reads(acc, v, j) == acc \cup {<<v, j, "r">>}

Writes(acc, v, j) == acc \cup {<<v, j, "w">>}

\* the jobs that read v, and those that wrote it
Readers(v) == {j \in Jobs : <<v, j, "r">> \in access}

Writers(v) == {j \in Jobs : <<v, j, "w">> \in access}

\* the process before any concurrent job's tool call
NoJobActive ==
    /\ _client = "None"
    /\ worker = <<>>
    /\ bucket = <<>>
    /\ alone = <<>>
    /\ access = NoAccess

Init ==
    /\ jobs \in {{}, {JobId}}
    /\ integrations \in {{}, {"openai"}}
    /\ store = InitStore
    /\ phase = "idle"
    /\ http = NoHttp
    /\ status = "NotStarted"
    /\ agent = starting_agent
    /\ current_turn = 0
    /\ provider_queries = 0
    /\ response = NoResponse
    /\ tool_result = NoResult
    /\ client_op = NoOp
    /\ final_output = <<>>
    /\ revision_count = 0
    /\ committed = InitStore
    /\ NoJobActive

runVars == <<status, agent, current_turn, provider_queries, response, tool_result,
             client_op, final_output, revision_count>>

----------------------------------------------------------------------------
(* generate_report (main.py), up to the start of the run *)

\* get_job found nothing: 404
RequestJobNotFound ==
    /\ phase = "idle"
    /\ JobId \notin jobs
    /\ phase' = "responded"
    /\ http' = [NoHttp EXCEPT !.code = 404, !.detail = "job not found"]
    /\ UNCHANGED <<jobVars, committed, jobs, integrations, store>>
    /\ UNCHANGED runVars

\* a credentials check that does not wait for the job check
RequestNoCredentials_unordered ==
    /\ phase = "idle"
    /\ "openai" \notin integrations
    /\ phase' = "responded"
    /\ http' = [NoHttp EXCEPT !.code = 400, !.detail = "no connected AI integration found"]
    /\ UNCHANGED <<jobVars, committed, jobs, integrations, store>>
    /\ UNCHANGED runVars

\* get_ai_credentials found nothing: 400
RequestNoCredentials ==
    /\ phase = "idle"
    /\ JobId \in jobs
    /\ "openai" \notin integrations
    /\ phase' = "responded"
    /\ http' = [NoHttp EXCEPT !.code = 400, !.detail = "no connected AI integration found"]
    /\ UNCHANGED <<jobVars, committed, jobs, integrations, store>>
    /\ UNCHANGED runVars

\* run_flow is entered: Runner.run starts on the supervisor
RequestStartRun ==
    /\ phase = "idle"
    /\ JobId \in jobs
    /\ "openai" \in integrations
    /\ phase' = "running"
    /\ status' = "Active"
    /\ agent' = starting_agent
    /\ UNCHANGED <<jobVars, committed, jobs, integrations, store, http, current_turn, provider_queries,
                   response, tool_result, client_op, final_output, revision_count>>

----------------------------------------------------------------------------
(* Turn Engine (spec.md 4.3) *)

\* a loop that halts one query late
BudgetReached_late(turn) == turn > max_turns

\* the loop halts when the turn counter has reached max_turns
BudgetReached(turn) == turn >= max_turns

CanQuery ==
    /\ phase = "running"
    /\ status = "Active"
    /\ ~BudgetReached(current_turn)

\* a turn counter that a handoff does not advance
NextTurn_handoff_free(turn, variant) == IF variant = "Handoff" THEN turn ELSE turn + 1

\* the turn counter after one provider query
NextTurn(turn, variant) == turn + 1

\* the tool calls a provider response may carry: every read and write of
\* every file name, and a call of a tool that no agent declares
ToolCalls ==
    { [tool |-> "read_file", filename |-> f, content |-> <<>>] : f \in Filenames }
    \cup { [tool |-> "write_file", filename |-> f, content |-> c] :
             f \in Filenames, c \in Contents }
    \cup { [tool |-> "delete_file", filename |-> "draft.md", content |-> <<>>] }

\* what the client has acknowledged, after one more call
Acknowledged(acked, op) ==
    IF op.op = "put" /\ op.raised = "none"
    THEN [acked EXCEPT ![op.object] = op.data]
    ELSE acked

\* a smaller menu of tool calls, for the specification with fairness
FewToolCalls ==
    { [tool |-> "read_file", filename |-> "draft.md", content |-> <<>>],
      [tool |-> "write_file", filename |-> "draft.md", content |-> <<97>>],
      [tool |-> "read_file", filename |-> "secret.txt", content |-> <<>>] }

\* the faults a tool call can meet: none unless it reaches the client
FaultsOf(st, ag, call) ==
    IF execute(st, JobId, ag, call.tool, call.filename, call.content, "none").op = NoOp
    THEN {"none"}
    ELSE Faults

\* ToolInvocation: dispatch, append the ToolResult, stay on the same agent.
\* An exception that leaves the tool ends the run.
ToolInvocation(calls) ==
    /\ CanQuery
    /\ \E call \in calls : \E fault \in FaultsOf(store, agent, call) :
         \E x \in {execute(store, JobId, agent, call.tool, call.filename,
                           call.content, fault)} :
             /\ store' = x.store
             /\ tool_result' = x.result
             /\ client_op' = x.op
             /\ committed' = Acknowledged(committed, x.op)
             /\ status' = IF x.escaped = "none" THEN status ELSE "ToolFault"
             /\ response' = [variant |-> "ToolInvocation", tool |-> call.tool,
                             filename |-> call.filename, target |-> ""]
    /\ current_turn' = NextTurn(current_turn, "ToolInvocation")
    /\ provider_queries' = provider_queries + 1
    /\ UNCHANGED <<jobVars, jobs, integrations, phase, http, agent, final_output,
                   revision_count>>

TurnToolInvocation == ToolInvocation(ToolCalls)

TurnToolInvocationFew == ToolInvocation(FewToolCalls)

\* a handoff check that accepts every agent of the workflow
ValidHandoff_any_agent(ag, target) == target \in AgentNames

\* whether the active agent may hand off to the target
ValidHandoff(ag, target) == target \in AgentDef(ag).handoffs

\* a handoff that makes the target the active agent even when it is undeclared
TurnHandoff_switches_anyway ==
    /\ CanQuery
    /\ \E target \in Targets :
         /\ response' = [variant |-> "Handoff", tool |-> "", filename |-> "",
                         target |-> target]
         /\ IF ValidHandoff(agent, target)
            THEN /\ agent' = target
                 /\ status' = status
                 /\ revision_count' =
                      IF agent = critique.name /\ target = supervisor.name
                         /\ revision_count < RevCap
                      THEN revision_count + 1 ELSE revision_count
            ELSE /\ agent' = target
                 /\ status' = "InvalidHandoff"
                 /\ revision_count' = revision_count
    /\ tool_result' = NoResult
    /\ client_op' = NoOp
    /\ current_turn' = NextTurn(current_turn, "Handoff")
    /\ provider_queries' = provider_queries + 1
    /\ UNCHANGED <<jobVars, committed, jobs, integrations, store, phase, http, final_output>>

\* Handoff(target): InvalidHandoff unless the target is declared; else the
\* target becomes the active agent with a fresh transcript
TurnHandoff ==
    /\ CanQuery
    /\ \E target \in Targets :
         /\ response' = [variant |-> "Handoff", tool |-> "", filename |-> "",
                         target |-> target]
         /\ IF ValidHandoff(agent, target)
            THEN /\ agent' = target
                 /\ status' = status
                 /\ revision_count' =
                      IF agent = critique.name /\ target = supervisor.name
                         /\ revision_count < RevCap
                      THEN revision_count + 1 ELSE revision_count
            ELSE /\ agent' = agent
                 /\ status' = "InvalidHandoff"
                 /\ revision_count' = revision_count
    /\ tool_result' = NoResult
    /\ client_op' = NoOp
    /\ current_turn' = NextTurn(current_turn, "Handoff")
    /\ provider_queries' = provider_queries + 1
    /\ UNCHANGED <<jobVars, committed, jobs, integrations, store, phase, http, final_output>>

\* FinalAnswer(text): the run ends with RunResult{agent, text}
TurnFinalAnswer ==
    /\ CanQuery
    /\ \E text \in Contents :
         /\ final_output' = text
         /\ response' = [variant |-> "FinalAnswer", tool |-> "", filename |-> "",
                         target |-> ""]
    /\ status' = "Final"
    /\ tool_result' = NoResult
    /\ client_op' = NoOp
    /\ current_turn' = NextTurn(current_turn, "FinalAnswer")
    /\ provider_queries' = provider_queries + 1
    /\ UNCHANGED <<jobVars, committed, jobs, integrations, store, phase, http, agent, revision_count>>

\* the provider call itself fails: fatal for the run
TurnProviderFault ==
    /\ CanQuery
    /\ status' = "ProviderFault"
    /\ response' = [variant |-> "Fault", tool |-> "", filename |-> "", target |-> ""]
    /\ tool_result' = NoResult
    /\ client_op' = NoOp
    /\ current_turn' = NextTurn(current_turn, "Fault")
    /\ provider_queries' = provider_queries + 1
    /\ UNCHANGED <<jobVars, committed, jobs, integrations, store, phase, http, agent, final_output,
                   revision_count>>

\* a loop that stops querying when the budget is used up but never ends the run
TurnBudgetExceeded_silent ==
    /\ phase = "running"
    /\ status = "Active"
    /\ BudgetReached(current_turn)
    /\ tool_result' = NoResult
    /\ client_op' = NoOp
    /\ response' = NoResponse
    /\ UNCHANGED <<jobVars, committed, jobs, integrations, store, phase, http, status, agent, current_turn,
                   provider_queries, final_output, revision_count>>

\* the turn budget is used up: BudgetExceeded, without another query
TurnBudgetExceeded ==
    /\ phase = "running"
    /\ status = "Active"
    /\ BudgetReached(current_turn)
    /\ status' = "BudgetExceeded"
    /\ tool_result' = NoResult
    /\ client_op' = NoOp
    /\ response' = NoResponse
    /\ UNCHANGED <<jobVars, committed, jobs, integrations, store, phase, http, agent, current_turn,
                   provider_queries, final_output, revision_count>>

----------------------------------------------------------------------------
(* generate_report (main.py), after the run *)

Terminal == {"Final", "InvalidHandoff", "ProviderFault", "BudgetExceeded", "ToolFault"}

\* run_flow returned result.final_output: 200 with the report and its length
ReturnReport ==
    /\ phase = "running"
    /\ status = "Final"
    /\ phase' = "responded"
    /\ http' = [code |-> 200, job_id |-> JobId, report |-> final_output,
                bytes |-> Len(final_output), detail |-> ""]
    /\ UNCHANGED <<jobVars, committed, jobs, integrations, store>>
    /\ UNCHANGED runVars

\* run_flow raised: 500 carrying the message
ReturnFailure ==
    /\ phase = "running"
    /\ status \in Terminal \ {"Final"}
    /\ phase' = "responded"
    /\ http' = [NoHttp EXCEPT !.code = 500, !.detail = status]
    /\ UNCHANGED <<jobVars, committed, jobs, integrations, store>>
    /\ UNCHANGED runVars

----------------------------------------------------------------------------
(* Two concurrent jobs: their tool calls, down to the steps of get_client *)

TwoJobInit ==
    /\ jobs = Jobs
    /\ integrations = {"openai"}
    /\ store = InitStore
    /\ phase = "idle"
    /\ http = NoHttp
    /\ status = "NotStarted"
    /\ agent = starting_agent
    /\ current_turn = 0
    /\ provider_queries = 0
    /\ response = NoResponse
    /\ tool_result = NoResult
    /\ client_op = NoOp
    /\ final_output = <<>>
    /\ revision_count = 0
    /\ committed = InitStore
    /\ _client = "None"
    /\ worker = [j \in Jobs |-> IdleWorker]
    /\ bucket = <<>>
    /\ alone = [j \in Jobs |-> <<>>]
    /\ access = NoAccess

\* the tool body as one whole, for job j
RunTool(st, j, call, fault) ==
    IF call.tool = "read_file"
    THEN read_file(st, j, call.filename, fault)
    ELSE write_file(st, j, call.filename, call.content, fault)

\* a call on the client get_client() returned: a call on None raises
\* (AttributeError), any Minio client built from the settings serves it
UseClient(held, fault) == IF held = "None" THEN "io" ELSE fault

\* a tool of job j is called: the allow-list test; a rejected call returns at
\* once, any other goes on into read_artifact / write_artifact
JobToolCall(j) ==
    /\ worker[j].pc = "idle"
    /\ worker[j].calls < MaxCalls
    /\ \E call \in JobCalls :
         \E x \in {RunTool(BucketStore(bucket), j, call, "none")} :
             worker' = [worker EXCEPT ![j] =
                 IF x.result.kind = "Error"
                 THEN [@ EXCEPT !.call = call, !.calls = @ + 1, !.op = x.op,
                                !.result = x.result, !.expect = x.result]
                 ELSE [@ EXCEPT !.call = call, !.pc = "check"]]
    /\ UNCHANGED <<_client, bucket, alone, access>>
    /\ UNCHANGED flowVars

\* get_client, line 10: if _client is None
JobGetClientCheck(j) ==
    /\ worker[j].pc = "check"
    /\ worker' = [worker EXCEPT ![j].pc =
                     IF _client = "None" THEN "create" ELSE "return"]
    /\ access' = Reads(access, ClientVar, j)
    /\ UNCHANGED <<_client, bucket, alone>>
    /\ UNCHANGED flowVars

\* get_client, lines 11-16: _client = Minio(...)
JobGetClientCreate(j) ==
    /\ worker[j].pc = "create"
    /\ _client' = j
    /\ worker' = [worker EXCEPT ![j].pc = "return"]
    /\ access' = Writes(access, ClientVar, j)
    /\ UNCHANGED <<bucket, alone>>
    /\ UNCHANGED flowVars

\* a get_client whose creating caller gets back the None it found at line 10
JobGetClientReturn_seen_before(j) ==
    /\ worker[j].pc = "return"
    /\ worker' = [worker EXCEPT ![j].pc = "op",
                                ![j].held = IF j \in Writers(ClientVar)
                                            THEN "None" ELSE _client]
    /\ access' = Reads(access, ClientVar, j)
    /\ UNCHANGED <<_client, bucket, alone>>
    /\ UNCHANGED flowVars

\* get_client, line 17: return _client
JobGetClientReturn(j) ==
    /\ worker[j].pc = "return"
    /\ worker' = [worker EXCEPT ![j].pc = "op", ![j].held = _client]
    /\ access' = Reads(access, ClientVar, j)
    /\ UNCHANGED <<_client, bucket, alone>>
    /\ UNCHANGED flowVars

\* get_object / put_object on the client, and the rest of the tool body
JobStorageOp(j) ==
    /\ worker[j].pc = "op"
    /\ \E fault \in Faults :
         \E x \in {RunTool(BucketStore(bucket), j, worker[j].call,
                           UseClient(worker[j].held, fault))},
            y \in {RunTool(BucketStore(alone[j]), j, worker[j].call, fault)} :
             /\ bucket' = Puts(x.store)
             /\ alone' = [alone EXCEPT ![j] = Puts(y.store)]
             /\ worker' = [worker EXCEPT ![j] =
                    [@ EXCEPT !.pc = "idle", !.calls = @ + 1, !.op = x.op,
                              !.result = x.result, !.expect = y.result]]
             /\ access' = IF x.op.op = "put" THEN Writes(access, x.op.object, j)
                          ELSE Reads(access, x.op.object, j)
    /\ UNCHANGED _client
    /\ UNCHANGED flowVars

----------------------------------------------------------------------------
(* Properties *)

\* the names the workflow declares readable and writable
DeclaredRead  == {"grype.json", "dockle.json", "dive.json", "draft.md", "report.md"}
DeclaredWrite == {"report.md", "draft.md"}

\* the name of the file an Artifact Client call addressed
OpFile(op) == op.object[3]

\* the last turn was a tool call of the given tool
Called(tool) == response.variant = "ToolInvocation" /\ response.tool = tool

\* C1: a get or put reaches the Artifact Client only for a tool of the active
\* agent's tool set and a name of the allow-list of the call's mode: gets only
\* for the five readable names, puts only for report.md and draft.md.
C1_OnlyAllowedOps ==
    /\ client_op.op # "none" =>
         /\ response.variant = "ToolInvocation"
         /\ response.tool \in AgentDef(agent).tools
         /\ client_op.object = object_name(JobId, response.filename)
    /\ client_op.op = "get" => Called("read_file") /\ OpFile(client_op) \in DeclaredRead
    /\ client_op.op = "put" => Called("write_file") /\ OpFile(client_op) \in DeclaredWrite

\* C1 witness: a get of a scan artifact has been executed
C1_Witness ==
    /\ client_op.op = "get"
    /\ OpFile(client_op) = "grype.json"
    /\ tool_result.kind = "Content"

\* what the Artifact Client raised is what the ToolResult carries
FaultFolded ==
    client_op.raised # "none" =>
        /\ tool_result.kind = (IF client_op.op = "get" THEN "NotAvailable" ELSE "ErrorWriting")
        /\ tool_result.e = client_op.raised
        /\ tool_result.filename = OpFile(client_op)
        /\ status = "Active"
        /\ phase = "running"

\* C4: when the Artifact Client raises in a read or write tool call (I/O
\* fault, or the artifact does not exist), the call returns a ToolResult
\* carrying the fault message, the run stays Active on the same agent, and a
\* tool call never ends the run.
C4_FaultsFolded ==
    /\ [](FaultFolded /\ status # "ToolFault")
    /\ [][response'.variant = "ToolInvocation" /\ provider_queries' # provider_queries
            => /\ agent' = agent
               /\ status' = "Active"
               /\ tool_result'.kind # "none"]_vars

\* C4 witness: a read of an artifact that does not exist came back as a result
C4_Witness ==
    /\ Called("read_file")
    /\ client_op.raised = "NoSuchKey"
    /\ tool_result.kind = "NotAvailable"
    /\ status = "Active"

\* the last turn was a read or write of a name outside the set of its mode
Disallowed(r) ==
    /\ r.variant = "ToolInvocation"
    /\ \/ r.tool = "read_file" /\ r.filename \notin DeclaredRead
       \/ r.tool = "write_file" /\ r.filename \notin DeclaredWrite

Elements(seq) == { seq[i] : i \in 1..Len(seq) }

\* C5: a read or write of a name outside the allowed set of its mode returns
\* a failure ToolResult that lists all allowed names of that mode, makes no
\* Artifact Client call, leaves the store as it was, and the run stays
\* Active on the same agent.
C5_RejectedLocally ==
    /\ [](Disallowed(response) =>
            /\ tool_result.kind = "Error"
            /\ tool_result.filename = response.filename
            /\ Elements(tool_result.choices) =
                 (IF response.tool = "read_file" THEN DeclaredRead ELSE DeclaredWrite)
            /\ Len(tool_result.choices) = Cardinality(Elements(tool_result.choices))
            /\ client_op = NoOp
            /\ status = "Active")
    /\ [][Disallowed(response') /\ provider_queries' # provider_queries
            => store' = store /\ agent' = agent]_vars

\* C5 witness: a write to a scan artifact was rejected and the run goes on
C5_Witness ==
    /\ Called("write_file")
    /\ response.filename = "grype.json"
    /\ tool_result.kind = "Error"
    /\ status = "Active"

\* a provider query was made in this step
Queried == provider_queries' # provider_queries

\* C2: the turn counter grows by exactly one per provider query, whatever the
\* response variant; the number of queries never exceeds max_turns; a run
\* that is still Active after max_turns queries ends in BudgetExceeded, which
\* happens only after exactly max_turns queries; and once the run has ended,
\* no provider query and no tool call is made.
C2_TurnBudget ==
    /\ [](/\ current_turn = provider_queries
          /\ provider_queries <= max_turns
          /\ (status = "BudgetExceeded" => provider_queries = max_turns))
    /\ [][/\ Queried => /\ provider_queries' = provider_queries + 1
                        /\ current_turn' = current_turn + 1
                        /\ response'.variant \in {"ToolInvocation", "Handoff",
                                                  "FinalAnswer", "Fault"}
          /\ (status = "Active" /\ provider_queries = max_turns
                => status' = "BudgetExceeded")
          /\ (status \in Terminal
                => /\ provider_queries' = provider_queries
                   /\ store' = store
                   /\ client_op' = client_op
                   /\ status' = status)]_vars

\* C2 witness: the budget ran out after exactly max_turns queries
C2_Witness ==
    /\ status = "BudgetExceeded"
    /\ provider_queries = max_turns
    /\ phase = "running"

\* C3: every run that starts reaches a terminal state, whatever the provider
\* answers, as long as every call returns.
C3_Terminates == (phase = "running") ~> (status \in Terminal)

\* C3 witness: a run in which Critique handed back to the Supervisor again and
\* again was ended by the budget
C3_Witness ==
    /\ status = "BudgetExceeded"
    /\ revision_count = RevCap
    /\ store[object_name(JobId, "report.md")] = NoObject

\* the response is a Handoff to a target the active agent does not declare
UndeclaredHandoff(r, ag) ==
    r.variant = "Handoff" /\ r.target \notin AgentDef(ag).handoffs

\* C6: a Handoff to a target outside the active agent's handoff targets ends
\* the run in InvalidHandoff: the active agent is not switched, and no tool
\* call and no provider query follows.
C6_InvalidHandoffFatal ==
    /\ [](status = "InvalidHandoff" => UndeclaredHandoff(response, agent) /\ client_op = NoOp)
    /\ [][/\ (Queried /\ UndeclaredHandoff(response', agent)
                => /\ status' = "InvalidHandoff"
                   /\ agent' = agent
                   /\ store' = store
                   /\ client_op' = NoOp)
          /\ (status = "InvalidHandoff"
                => /\ provider_queries' = provider_queries
                   /\ agent' = agent
                   /\ store' = store
                   /\ client_op' = client_op
                   /\ status' = status)]_vars

\* C6 witness: Critique tried to hand off to itself and the run was reported
\* as failed
C6_Witness ==
    /\ status = "InvalidHandoff"
    /\ agent = "CritiqueAgent"
    /\ response.target = "CritiqueAgent"
    /\ http.code = 500

ReportObject == object_name(JobId, "report.md")

\* C7: a run that ends with a FinalAnswer ends with Critique (the Reviewer)
\* as the final agent, and only after the report artifact has been written;
\* the Supervisor (the Writer) never produces the terminal FinalAnswer.
C7_FinalOnlyByReviewer ==
    status = "Final" =>
        /\ agent = "CritiqueAgent"
        /\ store[ReportObject] # NoObject

\* the documented ceiling on revisions (run_flow docstring: "Max 3 revisions")
MaxRevisions == 3

\* C8: when generate_report answers 200, the report it returns is the run's
\* FinalAnswer text, the final agent is Critique, and the text is what is
\* stored under the job's report artifact.
C8_ReportIsStoredReport ==
    http.code = 200 =>
        /\ http.report = final_output
        /\ agent = "CritiqueAgent"
        /\ store[ReportObject] = encode(http.report)

\* C9: the number of Critique -> Supervisor handoffs of a run never exceeds
\* the maximum number of revisions.
C9_RevisionsBounded == revision_count <= MaxRevisions

\* C10: the Supervisor (Writer) writes only the draft; Critique (Reviewer)
\* reads only the draft and writes only the report; each agent's handoff
\* targets are exactly the other agent.
C10_RoleCapabilities ==
    /\ (agent = "SupervisorAgent" /\ client_op.op = "put"
          => OpFile(client_op) = "draft.md")
    /\ (agent = "CritiqueAgent" /\ client_op.op = "put"
          => OpFile(client_op) = "report.md")
    /\ (agent = "CritiqueAgent" /\ client_op.op = "get"
          => OpFile(client_op) = "draft.md")
    /\ supervisor.handoffs = {"CritiqueAgent"}
    /\ critique.handoffs = {"SupervisorAgent"}

\* the last turn made a client call of the given kind that did not raise
Did(op, kind) == op.op = kind /\ op.raised = "none"

\* C11: turns are sequential and a write is committed before the next query:
\* each step makes at most one provider query and at most one client call; in
\* every state (so at every query) the store holds, for every object, the
\* bytes of the latest acknowledged put; and a read in any later turn, by
\* either agent, returns exactly those bytes.
C11_WritesVisibleToLaterTurns ==
    /\ [](\A o \in DOMAIN store : store[o] = committed[o])
    /\ [][/\ provider_queries' \in {provider_queries, provider_queries + 1}
          /\ (Queried /\ client_op'.op = "get" =>
                /\ (client_op'.raised = "NoSuchKey") =
                      (committed[client_op'.object] = NoObject /\ tool_result'.e = "NoSuchKey")
                /\ (client_op'.raised = "none" =>
                      /\ client_op'.data = committed[client_op'.object]
                      /\ tool_result'.text = decode(committed[client_op'.object])))
          /\ (Queried /\ Did(client_op', "put") =>
                committed'[client_op'.object] = client_op'.data)]_vars

\* C11 witness: Critique reads the draft that the Supervisor wrote in an
\* earlier turn, before a handoff
C11_Witness ==
    /\ agent = "CritiqueAgent"
    /\ Did(client_op, "get")
    /\ OpFile(client_op) = "draft.md"
    /\ tool_result.text = <<233>>

RunUntouched ==
    /\ status = "NotStarted"
    /\ provider_queries = 0
    /\ client_op = NoOp
    /\ store = InitStore

ResultKinds == {"Content", "NotAvailable", "OK", "ErrorWriting", "Error", "ToolNotAvailable"}

\* C17: the active agent is always one of the two agents; it changes only in
\* a turn whose response is a Handoff to a target the active agent declares,
\* and then becomes that target; a ToolInvocation turn leaves the active
\* agent as it is and appends one ToolResult, whether the call succeeded, was
\* rejected or hit a storage fault; no other turn appends a ToolResult.
C17_AgentChangesOnlyByHandoff ==
    /\ [](agent \in {"SupervisorAgent", "CritiqueAgent"})
    /\ [][/\ (agent' # agent =>
                /\ Queried
                /\ response'.variant = "Handoff"
                /\ response'.target = agent'
                /\ agent' \in AgentDef(agent).handoffs
                /\ status' = "Active")
          /\ (Queried /\ response'.variant = "ToolInvocation" =>
                /\ agent' = agent
                /\ tool_result'.kind \in ResultKinds
                /\ tool_result'.filename = response'.filename)
          /\ (response'.variant # "ToolInvocation" => tool_result' = NoResult)]_vars

\* C17 witness: Critique is still the active agent after a write of its own
\* hit a storage fault
C17_Witness ==
    /\ agent = "CritiqueAgent"
    /\ status = "Active"
    /\ tool_result.kind = "ErrorWriting"
    /\ client_op.raised = "IOError"

\* C18: the number in a write confirmation is the number of bytes put into the
\* Artifact Client, and the byte length generate_report returns is the length
\* of the returned report in its encoded form.
C18_ByteCounts ==
    /\ (tool_result.kind = "OK" => tool_result.count = Len(client_op.data))
    /\ (http.code = 200 => http.bytes = Len(encode(http.report)))

\* C19: the scan artifacts keep the contents they had at the start of the
\* run; no scan name is writable; every writable name is readable.
C19_ScanDataReadOnly ==
    /\ \A f \in {"grype.json", "dockle.json", "dive.json"} :
          /\ store[<<JobId, "artifacts", f>>] = InitStore[<<JobId, "artifacts", f>>]
          /\ f \notin ALLOWED_WRITE
          /\ f \in ALLOWED_READ
    /\ ALLOWED_WRITE \subseteq ALLOWED_READ

\* C19 witness: both agents have written, a write to a scan artifact was
\* turned down, and the scan artifact is as it was
C19_Witness ==
    /\ Called("write_file")
    /\ response.filename = "dockle.json"
    /\ tool_result.kind = "Error"
    /\ store[ReportObject] # NoObject
    /\ store[object_name(JobId, "draft.md")] # NoObject
    /\ store[object_name(JobId, "dockle.json")] = ScanData

\* some job wrote variable v and another job read or wrote it
CrossAccess(v) ==
    \E j1, j2 \in Jobs :
       /\ j1 # j2
       /\ j1 \in Writers(v)
       /\ j2 \in Readers(v) \cup Writers(v)

\* every job's tool results and artifacts are those of the job run alone
SameAsAlone ==
    \A j \in Jobs :
       /\ worker[j].result = worker[j].expect
       /\ \A f \in Filenames :
             BucketStore(bucket)[<<j, "artifacts", f>>] =
                BucketStore(alone[j])[<<j, "artifacts", f>>]

\* C14 as stated: no variable written by a step of one job is read or written
\* by a step of the other, and each job's results and artifacts are as if it
\* had run alone.
C14_NoSharedMutableState ==
    /\ \A v \in SharedNames : ~CrossAccess(v)
    /\ SameAsAlone

\* C14 amended: the only variable of one job's steps that the other job's
\* steps also touch is the module-level storage client _client, written by a
\* job's first artifact access and read by every artifact access; whatever the
\* interleaving, get_client hands every caller a client (never None), and each
\* job's tool results and artifacts are as if it had run alone.
C14_OnlyClientShared ==
    /\ \A v \in SharedNames : CrossAccess(v) => v = ClientVar
    /\ \A j \in Jobs : worker[j].pc = "op" => worker[j].held \in Jobs
    /\ _client = "None" <=> Writers(ClientVar) = {}
    /\ SameAsAlone

\* C14 witness: both jobs found _client unset and each created a client, and
\* both went on to store a draft
C14_Witness ==
    /\ Writers(ClientVar) = Jobs
    /\ \A j \in Jobs : worker[j].result.kind = "OK" /\ Did(worker[j].op, "put")

\* C20: every get and put of a job's tools addresses an object under the
\* job's own prefix, <job id>/artifacts/<allowed name>; no object of one job
\* is ever read or written by the other job, and a successful get returns the
\* bytes of the job's own object.
C20_OwnNamespace ==
    /\ \A j \in Jobs :
          /\ worker[j].op.op = "get" =>
                \E f \in ALLOWED_READ : worker[j].op.object = <<j, "artifacts", f>>
          /\ worker[j].op.op = "put" =>
                \E f \in ALLOWED_WRITE : worker[j].op.object = <<j, "artifacts", f>>
          /\ (Did(worker[j].op, "get") /\ worker[j].pc = "idle" =>
                worker[j].op.data =
                   BucketStore(bucket)[<<j, "artifacts", worker[j].call.filename>>])
    /\ \A o \in BucketObjects : Readers(o) \cup Writers(o) \subseteq {o[1]}

\* C20 witness: both jobs wrote a draft of their own, and the first job then
\* read back its own
C20_Witness ==
    /\ BucketStore(bucket)[<<"job-2", "artifacts", "draft.md">>] = encode(<<233>>)
    /\ Did(worker["job-1"].op, "get")
    /\ worker["job-1"].op.data = encode(<<97>>)
    /\ worker["job-1"].result.text = <<97>>

----------------------------------------------------------------------------
(* Specifications *)

Next ==
    \/ RequestJobNotFound
    \/ RequestNoCredentials
    \/ RequestStartRun
    \/ TurnToolInvocation
    \/ TurnHandoff
    \/ TurnFinalAnswer
    \/ TurnProviderFault
    \/ TurnBudgetExceeded
    \/ ReturnReport
    \/ ReturnFailure

Spec == Init /\ [][Next]_vars

\* the same steps, with the smaller menu of tool calls
FairNext ==
    \/ RequestJobNotFound
    \/ RequestNoCredentials
    \/ RequestStartRun
    \/ TurnToolInvocationFew
    \/ TurnHandoff
    \/ TurnFinalAnswer
    \/ TurnProviderFault
    \/ TurnBudgetExceeded
    \/ ReturnReport
    \/ ReturnFailure

\* every provider call, every artifact operation and every step of the
\* handler returns
FairSpec == Init /\ [][FairNext]_vars /\ WF_vars(FairNext)

\* two jobs whose tool calls interleave at every step of the client code
TwoJobNext ==
    \E j \in Jobs :
       \/ JobToolCall(j)
       \/ JobGetClientCheck(j)
       \/ JobGetClientCreate(j)
       \/ JobGetClientReturn(j)
       \/ JobStorageOp(j)

TwoJobSpec == TwoJobInit /\ [][TwoJobNext]_vars

====
